---- MODULE Spec2Model ----
(***************************************************************************)
(* A model of the gb-emu emulator: main() and its loop, the cartridge      *)
(* loader, the I/O block dispatch, and the CPU / interrupt controller /    *)
(* timer the loop drives.                                                  *)
(*                                                                         *)
(* main(), load_cartridge(), verify_header_checksum(), write_io() and      *)
(* read_io() are translated from their C sources.  execute_instruction(),  *)
(* handle_interrupts(), timer_tick(), reset_cpu(), reset_timer(),          *)
(* write_timer()/read_timer() and write_interrupt()/read_interrupt() are   *)
(* only declared and called in the sources at hand; they are modelled from *)
(* the design document (sections 4.2 - 4.4).                               *)
(***************************************************************************)
EXTENDS Integers, Naturals, Sequences, FiniteSets, TLC

(***************************************************************************)
(* Bounds of the model.                                                    *)
(***************************************************************************)
\* Instructions executed by one run of the main loop.
MaxInstr == 4
\* Timer ticks performed while halted by one run of the main loop.
MaxHaltTicks == 6

(***************************************************************************)
(* Program constants.                                                      *)
(***************************************************************************)
\* verify_header_checksum: first and last header byte summed.
HeaderFirst == 308
HeaderLast == 332
\* I/O block addresses (CPU/timer.h, CPU/interrupt.h).
TIMER_DIV == 65284
TIMER_TIMA == 65285
TIMER_TMA == 65286
TIMER_TAC == 65287
IF_ADDRESS == 65295
IE_ADDRESS == 65535
\* Program counter and stack pointer after reset_cpu.
ResetPC == 256
ResetSP == 65534
\* Number of interrupt sources: VBlank, LCD STAT, Timer, Serial, Joypad.
NbInterrupts == 5
\* Bit of the timer interrupt in the IE / IF registers.
IV_TIMA == 2
\* Service routine of interrupt source 0; the sources are 8 bytes apart.
VectorBase == 64

(***************************************************************************)
(* Bit arithmetic on bytes.                                                *)
(***************************************************************************)
BitAt(v, n) == (v \div (2 ^ n)) % 2

RECURSIVE and_from(_, _, _)
and_from(a, b, n) ==
    IF n > 7 THEN 0
    ELSE BitAt(a, n) * BitAt(b, n) * (2 ^ n) + and_from(a, b, n + 1)

BitAnd(a, b) == and_from(a, b, 0)

BitOr(a, b) == a + b - BitAnd(a, b)

ClearBit(v, n) == v - BitAt(v, n) * (2 ^ n)

SetBit(v, n) == BitOr(v, 2 ^ n)

(***************************************************************************)
(* IN_RANGE(x, min, max) of utils/macro.h: both ends included.             *)
(***************************************************************************)
IN_RANGE(x, lo, hi) == lo <= x /\ x <= hi

(***************************************************************************)
(* Cartridge (cartridge.c).  Only the header bytes the checksum reads are  *)
(* kept of the ROM image.                                                  *)
(***************************************************************************)
\* A ROM image is kept as << a, b, c >>: header byte 0x0134 is a, header
\* byte 0x0135 is b, and every later header byte up to 0x014C is c.
RomByte(rom, i) ==
    IF i = HeaderFirst THEN rom[1]
    ELSE IF i = HeaderFirst + 1 THEN rom[2]
    ELSE rom[3]

\* The ROM images tried: the 25 bytes, each less one, sum to 0, to -25 and
\* to 256.
RomImages == { << 1, 1, 1 >>, << 0, 0, 0 >>, << 255, 26, 0 >> }

\* No file at the path given on the command line: fopen() returns NULL.
NoFile == [exists |-> FALSE, rom |-> << 0, 0, 0 >>]

\* The files tried as options->args[0].
Files == {NoFile} \cup {[exists |-> TRUE, rom |-> r] : r \in RomImages}

\* The cartridge before load_cartridge: a zero-initialised global, no ROM.
NoCartridge == [loaded |-> FALSE, rom |-> << 0, 0, 0 >>]

\* while (i <= 0x014C) sum -= cart.rom[i++] - 1;  on an unsigned char.
RECURSIVE checksum_loop(_, _, _)
checksum_loop(rom, i, sum) ==
    IF i <= HeaderLast
    THEN checksum_loop(rom, i + 1, (sum - (RomByte(rom, i) - 1)) % 256)
    ELSE sum

verify_header_checksum(rom) == checksum_loop(rom, HeaderFirst, 0) = 0

\* load_cartridge(path): the cartridge it leaves and the value it returns
\* ("true" or "false").  fopen() failing returns false; after fread(),
\* if (verify_header_checksum(cartridge)) returns false.
load_cartridge(f) ==
    IF ~f.exists
    THEN [cartridge |-> NoCartridge, ret |-> "false"]
    ELSE [cartridge |-> [loaded |-> TRUE, rom |-> f.rom],
          ret |-> IF verify_header_checksum(f.rom) THEN "false" ELSE "true"]

(***************************************************************************)
(* Timer (design 4.4).  div is the free-running divider; overflow records  *)
(* a TIMA overflow whose reload from TMA completes on the following tick.  *)
(***************************************************************************)
ResetTimer == [div |-> 0, tima |-> 0, tma |-> 0, tac |-> 0, overflow |-> FALSE]

ResetInterrupts == [ie |-> 0, iflag |-> 0]

\* Divider ticks per TIMA increment, selected by the two low bits of TAC.
TimerDivisor(tac) ==
    CASE tac % 4 = 0 -> 1024
      [] tac % 4 = 1 -> 16
      [] tac % 4 = 2 -> 64
      [] tac % 4 = 3 -> 256

TimerEnabled(tac) == BitAt(tac, 2) = 1

\* Set a source's bit in the pending-flag byte, whatever the enable mask.
interrupt_request(i, n) == [i EXCEPT !.iflag = SetBit(i.iflag, n)]

\* One tick of the timer on h = [timer, irq].
timer_tick(h) ==
    LET t == h.timer
        reloaded == IF t.overflow
                    THEN [t EXCEPT !.tima = t.tma, !.overflow = FALSE]
                    ELSE t
        irq1 == IF t.overflow THEN interrupt_request(h.irq, IV_TIMA) ELSE h.irq
        div1 == (t.div + 1) % 65536
        counted == TimerEnabled(t.tac) /\ div1 % TimerDivisor(t.tac) = 0
        t1 == IF ~counted THEN [reloaded EXCEPT !.div = div1]
              ELSE IF reloaded.tima = 255
              THEN [reloaded EXCEPT !.div = div1, !.tima = 0, !.overflow = TRUE]
              ELSE [reloaded EXCEPT !.div = div1, !.tima = reloaded.tima + 1]
    IN  [timer |-> t1, irq |-> irq1]

RECURSIVE timer_ticks(_, _)
timer_ticks(h, n) == IF n = 0 THEN h ELSE timer_ticks(timer_tick(h), n - 1)

\* write_timer: a write to the divider resets it whatever the value.
write_timer(t, address, data) ==
    CASE address = TIMER_DIV -> [t EXCEPT !.div = 0]
      [] address = TIMER_TIMA -> [t EXCEPT !.tima = data]
      [] address = TIMER_TMA -> [t EXCEPT !.tma = data]
      [] address = TIMER_TAC -> [t EXCEPT !.tac = data]
      [] OTHER -> t

read_timer(t, address) ==
    CASE address = TIMER_DIV -> t.div \div 256
      [] address = TIMER_TIMA -> t.tima
      [] address = TIMER_TMA -> t.tma
      [] address = TIMER_TAC -> t.tac
      [] OTHER -> 0

write_interrupt(i, address, data) ==
    CASE address = IF_ADDRESS -> [i EXCEPT !.iflag = data]
      [] address = IE_ADDRESS -> [i EXCEPT !.ie = data]
      [] OTHER -> i

read_interrupt(i, address) ==
    CASE address = IF_ADDRESS -> i.iflag
      [] address = IE_ADDRESS -> i.ie
      [] OTHER -> 0

(***************************************************************************)
(* I/O block (io.c).  h = [timer, irq]; owner names the accessor the       *)
(* address was forwarded to.                                               *)
(***************************************************************************)
\* A write_io whose default case forwards to the interrupt-flag register.
write_io_default_if(h, address, data) ==
    IF IN_RANGE(address, TIMER_DIV, TIMER_TAC)
    THEN [timer |-> write_timer(h.timer, address, data), irq |-> h.irq,
          owner |-> "timer"]
    ELSE [timer |-> h.timer,
          irq |-> write_interrupt(h.irq, IF_ADDRESS, data),
          owner |-> IF address = IF_ADDRESS THEN "interrupt" ELSE "none"]

\* A write_io whose timer range starts one register late.
write_io_late_range(h, address, data) ==
    IF IN_RANGE(address, TIMER_TIMA, TIMER_TAC)
    THEN [timer |-> write_timer(h.timer, address, data), irq |-> h.irq,
          owner |-> "timer"]
    ELSE IF address = IF_ADDRESS
    THEN [timer |-> h.timer,
          irq |-> write_interrupt(h.irq, IF_ADDRESS, data),
          owner |-> "interrupt"]
    ELSE [timer |-> h.timer, irq |-> h.irq, owner |-> "none"]

write_io(h, address, data) ==
    IF IN_RANGE(address, TIMER_DIV, TIMER_TAC)
    THEN [timer |-> write_timer(h.timer, address, data), irq |-> h.irq,
          owner |-> "timer"]
    ELSE IF address = IF_ADDRESS
    THEN [timer |-> h.timer,
          irq |-> write_interrupt(h.irq, IF_ADDRESS, data),
          owner |-> "interrupt"]
    ELSE [timer |-> h.timer, irq |-> h.irq, owner |-> "none"]

\* A read_io that lost its IF_ADDRESS case.
read_io_no_if(h, address) ==
    IF IN_RANGE(address, TIMER_DIV, TIMER_TAC)
    THEN [value |-> read_timer(h.timer, address), owner |-> "timer"]
    ELSE [value |-> 0, owner |-> "none"]

read_io(h, address) ==
    IF IN_RANGE(address, TIMER_DIV, TIMER_TAC)
    THEN [value |-> read_timer(h.timer, address), owner |-> "timer"]
    ELSE IF address = IF_ADDRESS
    THEN [value |-> read_interrupt(h.irq, IF_ADDRESS), owner |-> "interrupt"]
    ELSE [value |-> 0, owner |-> "none"]

(***************************************************************************)
(* Memory bus (design 4.5), for the addresses the model's instructions     *)
(* use: the I/O block goes to write_io / read_io, the interrupt-enable     *)
(* register to the interrupt accessors.                                    *)
(***************************************************************************)
write_memory(h, address, data) ==
    IF address = IE_ADDRESS
    THEN [timer |-> h.timer,
          irq |-> write_interrupt(h.irq, IE_ADDRESS, data),
          owner |-> "interrupt"]
    ELSE write_io(h, address, data)

read_memory(h, address) ==
    IF address = IE_ADDRESS
    THEN [value |-> read_interrupt(h.irq, IE_ADDRESS), owner |-> "interrupt"]
    ELSE read_io(h, address)

\* The stack bytes written so far; a byte never written reads as 0.
ReadByte(m, a) == IF a \in DOMAIN m THEN m[a] ELSE 0

WriteByte(m, a, v) ==
    [x \in (DOMAIN m) \cup {a} |-> IF x = a THEN v ELSE m[x]]

\* PUSH of a 16-bit value: SP drops by 2, low byte at the lower address.
Push16(c, m, v) ==
    LET sp1 == (c.sp - 2) % 65536
    IN  [sp |-> sp1,
         mem |-> WriteByte(WriteByte(m, (sp1 + 1) % 65536, v \div 256),
                           sp1, v % 256)]

Pop16(c, m) ==
    [sp |-> (c.sp + 2) % 65536,
     value |-> ReadByte(m, c.sp) + 256 * ReadByte(m, (c.sp + 1) % 65536)]

(***************************************************************************)
(* CPU (design 3, 4.2).  The instruction descriptors of instruction.h the  *)
(* model runs: the fetched opcode and its operands are inputs.             *)
(***************************************************************************)
\* cpu before reset_cpu: a zero-initialised global.
ZeroCpu ==
    [is_running |-> FALSE, halt |-> FALSE, ime |-> FALSE,
     ime_scheduled |-> FALSE, pc |-> 0, sp |-> 0]

reset_cpu ==
    [is_running |-> TRUE, halt |-> FALSE, ime |-> FALSE,
     ime_scheduled |-> FALSE, pc |-> ResetPC, sp |-> ResetSP]

\* The stores an IN_LD of the model performs, as << address, data >>: every
\* timer register, the address after the timer registers, the
\* pending flags (cleared, VBlank + Timer) and the enable mask (Timer alone,
\* VBlank + Timer).
Stores ==
    { << TIMER_DIV, 5 >>, << TIMER_TIMA, 255 >>, << TIMER_TMA, 5 >>,
      << TIMER_TAC, 5 >>, << TIMER_TAC + 1, 0 >>,
      << IF_ADDRESS, 0 >>, << IF_ADDRESS, 5 >>,
      << IE_ADDRESS, 4 >>, << IE_ADDRESS, 5 >> }

\* The addresses an IN_LD of the model reads.
Loads == { IF_ADDRESS }

Simple(name, cycles) ==
    [instruction |-> name, type |-> "NO_OPERAND", address |-> 0, data |-> 0,
     store |-> FALSE, cycle_count |-> cycles, length |-> 1]

NoInstruction == Simple("none", 0)

\* Cycle counts are machine cycles: the timer is ticked once for each.
Instructions ==
    { Simple("IN_ERR", 0), Simple("IN_NOP", 1), Simple("IN_HALT", 1),
      Simple("IN_DI", 1), Simple("IN_EI", 1), Simple("IN_RETI", 4) }
    \cup
    { [instruction |-> "IN_LD", type |-> "A16", address |-> w[1],
       data |-> w[2], store |-> TRUE, cycle_count |-> 4, length |-> 3] :
         w \in Stores }
    \cup
    { [instruction |-> "IN_LD", type |-> "A16", address |-> a, data |-> 0,
       store |-> FALSE, cycle_count |-> 4, length |-> 3] : a \in Loads }

NoAccess == [op |-> "none", address |-> 0, owner |-> "none", value |-> 0]

\* An EI that sets the master enable at once.
ei_effect_at_once(c) == [c EXCEPT !.ime = TRUE]

\* EI: the master enable is scheduled, not set.
ei_effect(c) == [c EXCEPT !.ime_scheduled = TRUE]

\* DI: the master enable is cleared at once.
di_effect(c) == [c EXCEPT !.ime = FALSE]

\* execute_instruction on s = [cpu, timer, irq, mem] with descriptor in.
\* An EI executed before takes effect now: IME is set as this instruction
\* executes, before the instruction's own effect on IME.  The timer is
\* ticked once per machine cycle of the instruction, then the operation is
\* applied.
execute_instruction(s, in) ==
    LET c0 == [s.cpu EXCEPT !.ime = s.cpu.ime \/ s.cpu.ime_scheduled,
                            !.ime_scheduled = FALSE,
                            !.pc = (s.cpu.pc + in.length) % 65536]
        h0 == timer_ticks([timer |-> s.timer, irq |-> s.irq], in.cycle_count)
        wr == write_memory(h0, in.address, in.data)
        rd == read_memory(h0, in.address)
        pop == Pop16(c0, s.mem)
        c1 == CASE in.instruction = "IN_ERR" -> [c0 EXCEPT !.is_running = FALSE]
                [] in.instruction = "IN_HALT" -> [c0 EXCEPT !.halt = TRUE]
                [] in.instruction = "IN_DI" -> di_effect(c0)
                [] in.instruction = "IN_EI" -> ei_effect(c0)
                [] in.instruction = "IN_RETI" ->
                     [c0 EXCEPT !.ime = TRUE, !.pc = pop.value, !.sp = pop.sp]
                [] OTHER -> c0
        h1 == IF in.instruction = "IN_LD" /\ in.store
              THEN [timer |-> wr.timer, irq |-> wr.irq]
              ELSE h0
        io1 == IF in.instruction # "IN_LD" THEN NoAccess
               ELSE IF in.store
               THEN [op |-> "write", address |-> in.address,
                     owner |-> wr.owner, value |-> in.data]
               ELSE [op |-> "read", address |-> in.address,
                     owner |-> rd.owner, value |-> rd.value]
    IN  [cpu |-> c1, timer |-> h1.timer, irq |-> h1.irq, mem |-> s.mem,
         io |-> io1]

(***************************************************************************)
(* Interrupt controller (design 4.3).                                      *)
(***************************************************************************)
\* Sources both pending and enabled, as a bit set over the five sources.
PendingEnabled(i) == BitAnd(BitAnd(i.ie, i.iflag), (2 ^ NbInterrupts) - 1)

\* The highest-numbered set bit: the priority order reversed.
HighestBit(v) ==
    CHOOSE n \in 0..(NbInterrupts - 1) :
        BitAt(v, n) = 1 /\ \A m \in (n + 1)..(NbInterrupts - 1) : BitAt(v, m) = 0

\* The lowest-numbered set bit: the source of highest priority.
LowestBit(v) ==
    CHOOSE n \in 0..(NbInterrupts - 1) :
        BitAt(v, n) = 1 /\ \A m \in 0..(n - 1) : BitAt(v, m) = 0

InterruptVector(n) == VectorBase + 8 * n

\* handle_interrupts on s = [cpu, timer, irq, mem]; serviced is the sequence
\* of the sources dispatched by the call.
handle_interrupts(s) ==
    LET pend == PendingEnabled(s.irq)
        woken == IF pend # 0 THEN [s.cpu EXCEPT !.halt = FALSE] ELSE s.cpu
        n == LowestBit(pend)
        pushed == Push16(woken, s.mem, woken.pc)
    IN  IF woken.ime /\ pend # 0
        THEN [cpu |-> [woken EXCEPT !.ime = FALSE, !.sp = pushed.sp,
                                    !.pc = InterruptVector(n)],
              timer |-> s.timer,
              irq |-> [s.irq EXCEPT !.iflag = ClearBit(s.irq.iflag, n)],
              mem |-> pushed.mem,
              serviced |-> <<n>>]
        ELSE [cpu |-> woken, timer |-> s.timer, irq |-> s.irq, mem |-> s.mem,
              serviced |-> <<>>]

(***************************************************************************)
(* main (main.c).                                                          *)
(***************************************************************************)
VARIABLES
    main_pc,     \* where main is: load, info, reset, head, work, irq, end,
                 \* done (returned) or crashed
    file,        \* the file at options->args[0]
    cartridge,   \* struct cartridge
    load_ret,    \* what load_cartridge returned, "none" before the call
    cpu,         \* struct cpu: run state, IME, PC, SP
    timer,       \* timer registers
    irq,         \* interrupt-enable mask and pending-flag byte
    mem,         \* stack bytes written
    units,       \* units of work of the current iteration, in order
    irq_calls,   \* handle_interrupts calls of the current iteration
    last_in,     \* descriptor executed in the current iteration
    serviced,    \* sources dispatched in the current iteration
    io,          \* bus access of the current iteration
    at_head,     \* IME, halt and the pending-and-enabled sources as the
                 \* current iteration began
    n_instr,     \* instructions executed so far
    n_halt,      \* timer ticks done while halted so far
    g_lcd,       \* struct lcd, as the bytes write_lcd and read_lcd index
    g_palettes,  \* union palettes: the shades of bg, obj[0] and obj[1]
    lcd_op,      \* the last call made to the LCD and what came of it
    lcd_mode,    \* << the mode last given to lcd_set_mode >>, << >> before
    decode,      \* an opcode byte and the fields taken from it
    argp,        \* argp_parse: the arguments left, arg_num, options.args
    header,      \* the cartridge header fields load_cartridge reads
    loader       \* what load_cartridge and check_multicart made of them

vars ==
    << main_pc, file, cartridge, load_ret, cpu, timer, irq, mem,
       units, irq_calls, last_in, serviced, io, at_head, n_instr, n_halt,
       g_lcd, g_palettes, lcd_op, lcd_mode, decode, argp, header, loader >>

\* What main and the I/O block of this model leave alone.
collaborators ==
    << g_lcd, g_palettes, lcd_op, lcd_mode, decode, argp, header, loader >>

\* What the collaborators leave alone.
core ==
    << main_pc, file, cartridge, load_ret, cpu, timer, irq, mem,
       units, irq_calls, last_in, serviced, io, at_head, n_instr, n_halt >>

machine == << cpu, timer, irq, mem >>

inputs == << file >>

iteration == << units, irq_calls, last_in, serviced, io, at_head >>

counters == << n_instr, n_halt >>

Machine == [cpu |-> cpu, timer |-> timer, irq |-> irq, mem |-> mem]

\* What an iteration remembers of the state it began in.
Snapshot(c, i) ==
    [halt |-> c.halt, ime |-> c.ime, ime_scheduled |-> c.ime_scheduled,
     pending |-> PendingEnabled(i)]

(***************************************************************************)
(* The collaborators before any of their code has run: g_lcd and           *)
(* g_palettes are static objects and start as zero bytes.                  *)
(***************************************************************************)
LcdSize == 16

ZeroLcd == [i \in 0..(LcdSize - 1) |-> 0]

ZeroShade == "00000000"

ZeroPalette == << ZeroShade, ZeroShade, ZeroShade, ZeroShade >>

ZeroPalettes == [bg |-> ZeroPalette, obj0 |-> ZeroPalette, obj1 |-> ZeroPalette]

NoMode == << >>

NoLcdOp ==
    [op |-> "none", address |-> 0, value |-> 0, result |-> "none",
     stored |-> "none"]

NoDecode == [byte_order |-> "none", opcode |-> 0, done |-> FALSE,
             x |-> 0, y |-> 0, z |-> 0, p |-> 0, q |-> 0]

NoArgp == [at |-> "idle", given |-> << >>, argv |-> << >>, arg_num |-> 0,
           args |-> {}, flags |-> {}]

NoHeader == [ram_size |-> 0, rom_size |-> 0, logos |-> {}]

NoLoader == [at |-> "idle", ram_size_code |-> 0, ram_size |-> 0,
             multicart |-> FALSE, nb_games |-> 0]

CollaboratorsIdle ==
    /\ g_lcd = ZeroLcd
    /\ g_palettes = ZeroPalettes
    /\ lcd_op = NoLcdOp
    /\ lcd_mode = NoMode
    /\ decode = NoDecode
    /\ argp = NoArgp
    /\ header = NoHeader
    /\ loader = NoLoader

Init ==
    /\ main_pc = "load"
    /\ file \in Files
    /\ cartridge = NoCartridge
    /\ load_ret = "none"
    /\ cpu = ZeroCpu
    /\ timer = ResetTimer
    /\ irq = ResetInterrupts
    /\ mem = << >>
    /\ units = << >>
    /\ irq_calls = 0
    /\ last_in = NoInstruction
    /\ serviced = << >>
    /\ io = NoAccess
    /\ at_head = Snapshot(ZeroCpu, ResetInterrupts)
    /\ n_instr = 0
    /\ n_halt = 0
    /\ CollaboratorsIdle

\* main.c:17  load_cartridge(options->args[0]);  the result is dropped.
main_load ==
    /\ main_pc = "load"
    /\ cartridge' = load_cartridge(file).cartridge
    /\ load_ret' = load_cartridge(file).ret
    /\ main_pc' = "info"
    /\ UNCHANGED << collaborators, inputs, machine, iteration, counters >>

\* main.c:18  cartridge_info();  with no ROM in memory it reads through a
\* null pointer: the process crashes, or goes on with whatever it read.
main_info ==
    /\ main_pc = "info"
    /\ \/ main_pc' = "reset"
       \/ ~cartridge.loaded /\ main_pc' = "crashed"
    /\ UNCHANGED << collaborators, inputs, cartridge, load_ret, machine, iteration, counters >>

\* main.c:20-21  reset_cpu(); reset_timer();
main_reset ==
    /\ main_pc = "reset"
    /\ cpu' = reset_cpu
    /\ timer' = ResetTimer
    /\ irq' = ResetInterrupts
    /\ main_pc' = "head"
    /\ UNCHANGED << collaborators, inputs, cartridge, load_ret, mem, iteration, counters >>

\* A loop test that reads the wrong flag: while (!cpu.halt).
loop_test_halt(c) == ~c.halt

loop_test_always(c) == TRUE

\* main.c:23  while (cpu.is_running)
loop_test(c) == c.is_running

loop_head ==
    /\ main_pc = "head"
    /\ main_pc' = IF loop_test(cpu) THEN "work" ELSE "done"
    /\ units' = << >>
    /\ irq_calls' = 0
    /\ last_in' = NoInstruction
    /\ serviced' = << >>
    /\ io' = NoAccess
    /\ at_head' = Snapshot(cpu, irq)
    /\ UNCHANGED << collaborators, inputs, cartridge, load_ret, machine, counters >>

\* A loop body that lost its else: the timer tick of a halted CPU is followed
\* by an instruction all the same.
unit_of_work_no_else(s, in) ==
    IF s.cpu.halt
    THEN LET h == timer_tick([timer |-> s.timer, irq |-> s.irq])
             r == execute_instruction(
                      [cpu |-> s.cpu, timer |-> h.timer, irq |-> h.irq,
                       mem |-> s.mem], Simple("IN_NOP", 1))
         IN  [cpu |-> r.cpu, timer |-> r.timer, irq |-> r.irq, mem |-> r.mem,
              io |-> r.io, units |-> << "tick", "exec" >>,
              executed |-> Simple("IN_NOP", 1)]
    ELSE LET r == execute_instruction(s, in)
         IN  [cpu |-> r.cpu, timer |-> r.timer, irq |-> r.irq, mem |-> r.mem,
              io |-> r.io, units |-> << "exec" >>, executed |-> in]

\* A loop body with its test inverted: a halted CPU executes, a running one
\* only ticks the timer.
unit_of_work_inverted(s, in) ==
    IF ~s.cpu.halt
    THEN LET h == timer_tick([timer |-> s.timer, irq |-> s.irq])
         IN  [cpu |-> s.cpu, timer |-> h.timer, irq |-> h.irq, mem |-> s.mem,
              io |-> NoAccess, units |-> << "tick" >>,
              executed |-> NoInstruction]
    ELSE LET r == execute_instruction(s, Simple("IN_NOP", 1))
         IN  [cpu |-> r.cpu, timer |-> r.timer, irq |-> r.irq, mem |-> r.mem,
              io |-> r.io, units |-> << "exec" >>,
              executed |-> Simple("IN_NOP", 1)]

\* main.c:24-28  if (cpu.halt) timer_tick(); else execute_instruction();
unit_of_work(s, in) ==
    IF s.cpu.halt
    THEN LET h == timer_tick([timer |-> s.timer, irq |-> s.irq])
         IN  [cpu |-> s.cpu, timer |-> h.timer, irq |-> h.irq, mem |-> s.mem,
              io |-> NoAccess, units |-> << "tick" >>,
              executed |-> NoInstruction]
    ELSE LET r == execute_instruction(s, in)
         IN  [cpu |-> r.cpu, timer |-> r.timer, irq |-> r.irq, mem |-> r.mem,
              io |-> r.io, units |-> << "exec" >>, executed |-> in]

\* The number of times a unit appears in a sequence of units.
CountOf(u, kind) == Cardinality({k \in 1..Len(u) : u[k] = kind})

loop_work ==
    /\ main_pc = "work"
    /\ IF cpu.halt THEN n_halt < MaxHaltTicks ELSE n_instr < MaxInstr
    /\ \E in \in (IF cpu.halt THEN {NoInstruction} ELSE Instructions) :
         \E r \in {unit_of_work(Machine, in)} :
             /\ cpu' = r.cpu
             /\ timer' = r.timer
             /\ irq' = r.irq
             /\ mem' = r.mem
             /\ io' = r.io
             /\ units' = units \o r.units
             /\ last_in' = r.executed
             /\ n_instr' = n_instr + CountOf(r.units, "exec")
             /\ n_halt' = n_halt + CountOf(r.units, "tick")
    /\ main_pc' = "irq"
    /\ UNCHANGED << collaborators, inputs, cartridge, load_ret, irq_calls, serviced, at_head >>

\* main.c:30  handle_interrupts();
loop_interrupts ==
    /\ main_pc = "irq"
    /\ \E r \in {handle_interrupts(Machine)} :
           /\ cpu' = r.cpu
           /\ timer' = r.timer
           /\ irq' = r.irq
           /\ mem' = r.mem
           /\ serviced' = serviced \o r.serviced
    /\ irq_calls' = irq_calls + 1
    /\ main_pc' = "end"
    /\ UNCHANGED << collaborators, inputs, cartridge, load_ret, units, last_in, io, at_head,
                    counters >>

\* main.c:32-35  if (options->blargg) { test_rom_update(); test_rom_print(); }
\* Whatever options->blargg is, the test-ROM reporting touches none of the
\* state kept here.
loop_end ==
    /\ main_pc = "end"
    /\ main_pc' = "head"
    /\ UNCHANGED << collaborators, inputs, cartridge, load_ret, machine, iteration, counters >>

Next ==
    \/ main_load
    \/ main_info
    \/ main_reset
    \/ loop_head
    \/ loop_work
    \/ loop_interrupts
    \/ loop_end

Spec == Init /\ [][Next]_vars

(***************************************************************************)
(* The I/O block on its own: read_io and write_io called with any address  *)
(* of the test set, on the timer and interrupt registers as reset.         *)
(***************************************************************************)
\* Addresses given to read_io / write_io: both ends of the I/O page, the
\* timer registers and IF with the addresses on each side of them.
IoAddresses ==
    { 65280, TIMER_DIV - 1, TIMER_DIV, TIMER_TIMA, TIMER_TMA, TIMER_TAC,
      TIMER_TAC + 1, IF_ADDRESS - 1, IF_ADDRESS, IF_ADDRESS + 1, 65407 }

\* Values given to write_io.
IoData == {0, 5, 255}

InitIo ==
    /\ main_pc = "io"
    /\ file = NoFile
    /\ cartridge = NoCartridge
    /\ load_ret = "none"
    /\ cpu = reset_cpu
    /\ timer = ResetTimer
    /\ irq = ResetInterrupts
    /\ mem = << >>
    /\ units = << >>
    /\ irq_calls = 0
    /\ last_in = NoInstruction
    /\ serviced = << >>
    /\ io = NoAccess
    /\ at_head = Snapshot(reset_cpu, ResetInterrupts)
    /\ n_instr = 0
    /\ n_halt = 0
    /\ CollaboratorsIdle

io_write ==
    /\ main_pc = "io"
    /\ \E a \in IoAddresses, d \in IoData :
         \E r \in {write_io([timer |-> timer, irq |-> irq], a, d)} :
             /\ timer' = r.timer
             /\ irq' = r.irq
             /\ io' = [op |-> "write", address |-> a, owner |-> r.owner,
                       value |-> d]
    /\ UNCHANGED << collaborators, main_pc, inputs, cartridge, load_ret, cpu, mem, units,
                    irq_calls, last_in, serviced, at_head, counters >>

io_read ==
    /\ main_pc = "io"
    /\ \E a \in IoAddresses :
         \E r \in {read_io([timer |-> timer, irq |-> irq], a)} :
             io' = [op |-> "read", address |-> a, owner |-> r.owner,
                    value |-> r.value]
    /\ UNCHANGED << collaborators, main_pc, inputs, cartridge, load_ret, machine, units,
                    irq_calls, last_in, serviced, at_head, counters >>

NextIo ==
    \/ io_write
    \/ io_read

SpecIo == InitIo /\ [][NextIo]_vars

(***************************************************************************)
(* The LCD registers (ppu/lcd.c).  struct lcd is sixteen one-byte fields,  *)
(* and write_lcd / read_lcd index it as bytes from 0xFF40: lcdc 0, stat 1, *)
(* scy 2, scx 3, ly 4, lyc 5, dma 6, bgp 7, obp 8-9, wy 10, wx 11 and      *)
(* cgb_colors 12-15.                                                       *)
(***************************************************************************)
LCD_BASE == 65344
STAT_ADDRESS == 65345
LY_ADDRESS == 65348
LYC_ADDRESS == 65349
DMA_ADDRESS == 65350
BGP_ADDRESS == 65351
OBP1_ADDRESS == 65353
LCD_LAST_READ == 65354
LCD_LAST_WRITE == 65355
CGB_FIRST == 65384
CGB_LAST == 65387

\* Offset of cgb_colors in struct lcd.
CgbOffset == 12

\* Number of shades in union palettes.
NbShades == 12

\* palette_name of the background palette.
BG_PALETTE == 0

StatAt == STAT_ADDRESS - LCD_BASE
LyAt == LY_ADDRESS - LCD_BASE
LycAt == LYC_ADDRESS - LCD_BASE

\* BETWEEN(x, min, max) of utils/macro.h: both ends included.
BETWEEN(x, lo, hi) == lo <= x /\ x <= hi

default_palette == << "FFFFFFFF", "FFAAAAAA", "FF555555", "FF000000" >>

\* init_lcd, run on the LCD state s = [lcd, palettes].
init_lcd(s) ==
    [lcd |-> [i \in 0..(LcdSize - 1) |->
                CASE i = 0 -> 145
                  [] i = StatAt -> BitOr(0, 4)
                  [] i \in {2, 3, LyAt, LycAt, 10, 11} -> 0
                  [] i = 7 -> 252
                  [] i \in {8, 9} -> 255
                  [] OTHER -> s.lcd[i]],
     palettes |-> [bg |-> default_palette, obj0 |-> default_palette,
                   obj1 |-> default_palette]]

SHADE(data, index) == default_palette[((data \div (2 ^ (2 * index))) % 4) + 1]

\* lcd_get_palette: g_palettes.dmg.bg moved on by sizeof(palette) bytes,
\* whatever the index: the palette after bg.
lcd_get_palette(index) == "obj0"

lcd_update_palette(p, name, data) ==
    LET ptr == lcd_get_palette(name)
    IN  [p EXCEPT ![ptr] =
            << SHADE(data, 0), SHADE(data, 1), SHADE(data, 2),
               IF name = BG_PALETTE THEN SHADE(data, 3) ELSE @[4] >>]

\* lcd_ptr[address - 0xFF40] = value with address below 0xFF40: a store
\* before the start of g_lcd.  It lands in whatever the build placed there:
\* memory that is neither g_lcd nor g_palettes, or a shade of g_palettes
\* when g_palettes sits right before g_lcd.
store_before(s, address) ==
    LET k == (LCD_BASE - address - 1) \div 4
        f == (NbShades - 1) - k
        name == CASE f \div 4 = 0 -> "bg" [] f \div 4 = 1 -> "obj0"
                  [] OTHER -> "obj1"
    IN  {[lcd |-> s.lcd, palettes |-> s.palettes, stored |-> "out_of_bounds"]}
        \cup
        (IF k < NbShades
         THEN {[lcd |-> s.lcd,
                palettes |-> [s.palettes EXCEPT ![name][(f % 4) + 1] = "clobbered"],
                stored |-> "out_of_bounds"]}
         ELSE {})

\* The default branch of write_lcd's switch.
lcd_store(s, address, value) ==
    IF address <= LCD_LAST_WRITE
    THEN IF address >= LCD_BASE
         THEN {[lcd |-> [s.lcd EXCEPT ![address - LCD_BASE] = value],
                palettes |-> s.palettes, stored |-> "lcd"]}
         ELSE store_before(s, address)
    ELSE IF BETWEEN(address, CGB_FIRST, CGB_LAST)
    THEN {[lcd |-> [s.lcd EXCEPT ![CgbOffset + (address - CGB_FIRST)] = value],
           palettes |-> s.palettes, stored |-> "cgb"]}
    ELSE {[lcd |-> s.lcd, palettes |-> s.palettes, stored |-> "none"]}

lyc_flag_never(o, address) == o

\* The end of write_lcd: the LYC flag of STAT follows LY = LYC.
lyc_flag(o, address) ==
    IF BETWEEN(address, LY_ADDRESS, LYC_ADDRESS)
    THEN [o EXCEPT !.lcd[StatAt] =
            IF o.lcd[LyAt] = o.lcd[LycAt] THEN SetBit(@, 2) ELSE ClearBit(@, 2)]
    ELSE o

\* write_lcd: the outcomes of one call, each [lcd, palettes, stored].
write_lcd(s, address, value) ==
    IF address = STAT_ADDRESS
    THEN {[lcd |-> [s.lcd EXCEPT ![StatAt] =
                      BitOr(BitOr(BitAnd(@, 7), BitAnd(value, 248)), 128)],
           palettes |-> s.palettes, stored |-> "stat"]}
    ELSE IF address = LY_ADDRESS \/ address = DMA_ADDRESS
    THEN {[lcd |-> s.lcd, palettes |-> s.palettes, stored |-> "none"]}
    ELSE LET p == IF BETWEEN(address, BGP_ADDRESS, OBP1_ADDRESS)
                  THEN lcd_update_palette(s.palettes, address - BGP_ADDRESS,
                                          value)
                  ELSE s.palettes
         IN  { lyc_flag(o, address) :
                 o \in lcd_store([lcd |-> s.lcd, palettes |-> p],
                                 address, value) }

\* read_lcd: the outcomes of one call.  The assertion on the address stops
\* the program; in a build where it does not, the indexed byte is read,
\* inside g_lcd or not.
read_lcd(lcd, address) ==
    IF BETWEEN(address, LCD_BASE, LCD_LAST_READ)
    THEN {[result |-> "ok", value |-> lcd[address - LCD_BASE]]}
    ELSE {[result |-> "assert_failed", value |-> 0]}
         \cup
         (IF address - LCD_BASE \in 0..(LcdSize - 1)
          THEN {[result |-> "unchecked", value |-> lcd[address - LCD_BASE]]}
          ELSE {[result |-> "out_of_bounds", value |-> v] : v \in {0, 255}})

lcd_set_mode_or(lcd, mode) == [lcd EXCEPT ![StatAt] = BitOr(@, BitAnd(mode, 3))]

lcd_set_mode(lcd, mode) ==
    [lcd EXCEPT ![StatAt] = BitOr(BitAnd(@, 252), BitAnd(mode, 3))]

\* LCD_STAT_MODE_FLAG: bits 0-1 of STAT.
lcd_get_mode(lcd) == BitAnd(lcd[StatAt], 3)

(***************************************************************************)
(* The LCD on its own: any sequence of write_lcd, read_lcd, lcd_set_mode   *)
(* and lcd_get_mode calls after init_lcd.                                  *)
(***************************************************************************)
\* Addresses given to write_lcd and read_lcd: the byte before the register
\* block, registers of it, the first address after it, both ends of the
\* colour block and the address after that.
LcdAddresses ==
    { LCD_BASE - 1, STAT_ADDRESS, LY_ADDRESS, LYC_ADDRESS, DMA_ADDRESS,
      BGP_ADDRESS, LCD_LAST_READ, LCD_LAST_WRITE, LCD_LAST_WRITE + 1,
      CGB_FIRST, CGB_LAST + 1 }

\* Values given to write_lcd.
LcdData == {0, 173}

LcdModes == 0..3

CoreParked ==
    /\ file = NoFile
    /\ cartridge = NoCartridge
    /\ load_ret = "none"
    /\ cpu = reset_cpu
    /\ timer = ResetTimer
    /\ irq = ResetInterrupts
    /\ mem = << >>
    /\ units = << >>
    /\ irq_calls = 0
    /\ last_in = NoInstruction
    /\ serviced = << >>
    /\ io = NoAccess
    /\ at_head = Snapshot(reset_cpu, ResetInterrupts)
    /\ n_instr = 0
    /\ n_halt = 0

LcdState == [lcd |-> g_lcd, palettes |-> g_palettes]

InitLcd ==
    /\ main_pc = "lcd"
    /\ CoreParked
    /\ g_lcd = init_lcd([lcd |-> ZeroLcd, palettes |-> ZeroPalettes]).lcd
    /\ g_palettes = init_lcd([lcd |-> ZeroLcd, palettes |-> ZeroPalettes]).palettes
    /\ lcd_op = NoLcdOp
    /\ lcd_mode = NoMode
    /\ decode = NoDecode
    /\ argp = NoArgp
    /\ header = NoHeader
    /\ loader = NoLoader

lcd_write ==
    /\ main_pc = "lcd"
    /\ \E a \in LcdAddresses, d \in LcdData :
         \E o \in write_lcd(LcdState, a, d) :
             /\ g_lcd' = o.lcd
             /\ g_palettes' = o.palettes
             /\ lcd_op' = [op |-> "write", address |-> a, value |-> d,
                           result |-> "ok", stored |-> o.stored]
    /\ UNCHANGED << core, lcd_mode, decode, argp, header, loader >>

lcd_read ==
    /\ main_pc = "lcd"
    /\ \E a \in LcdAddresses :
         \E o \in read_lcd(g_lcd, a) :
             /\ lcd_op' = [op |-> "read", address |-> a, value |-> o.value,
                           result |-> o.result, stored |-> "none"]
             /\ main_pc' = IF o.result = "assert_failed" THEN "crashed"
                           ELSE "lcd"
    /\ UNCHANGED << file, cartridge, load_ret, machine, iteration, counters,
                    g_lcd, g_palettes, lcd_mode, decode, argp, header,
                    loader >>

lcd_setmode ==
    /\ main_pc = "lcd"
    /\ \E m \in LcdModes :
         /\ g_lcd' = lcd_set_mode(g_lcd, m)
         /\ lcd_mode' = << m >>
         /\ lcd_op' = [op |-> "set_mode", address |-> 0, value |-> m,
                       result |-> "ok", stored |-> "none"]
    /\ UNCHANGED << core, g_palettes, decode, argp, header, loader >>

lcd_getmode ==
    /\ main_pc = "lcd"
    /\ lcd_op' = [op |-> "get_mode", address |-> 0,
                  value |-> lcd_get_mode(g_lcd), result |-> "ok",
                  stored |-> "none"]
    /\ UNCHANGED << core, g_lcd, g_palettes, lcd_mode, decode, argp, header,
                    loader >>

NextLcd ==
    \/ lcd_write
    \/ lcd_read
    \/ lcd_setmode
    \/ lcd_getmode

SpecLcd == InitLcd /\ [][NextLcd]_vars

(***************************************************************************)
(* The palette registers on their own: any sequence of write_lcd calls to  *)
(* BGP, OBP0 and OBP1 after init_lcd.                                      *)
(***************************************************************************)
PaletteAddresses == BGP_ADDRESS..OBP1_ADDRESS

\* Values given to the palette registers: 0x1B and 0x18 differ in bits 0-1
\* only, 0xE4 in every pair of bits.
PaletteData == {27, 24, 228}

InitPalette ==
    /\ main_pc = "palette"
    /\ CoreParked
    /\ g_lcd = init_lcd([lcd |-> ZeroLcd, palettes |-> ZeroPalettes]).lcd
    /\ g_palettes = init_lcd([lcd |-> ZeroLcd, palettes |-> ZeroPalettes]).palettes
    /\ lcd_op = NoLcdOp
    /\ lcd_mode = NoMode
    /\ decode = NoDecode
    /\ argp = NoArgp
    /\ header = NoHeader
    /\ loader = NoLoader

palette_write ==
    /\ main_pc = "palette"
    /\ \E a \in PaletteAddresses, d \in PaletteData :
         \E o \in write_lcd(LcdState, a, d) :
             /\ g_lcd' = o.lcd
             /\ g_palettes' = o.palettes
             /\ lcd_op' = [op |-> "write", address |-> a, value |-> d,
                           result |-> "ok", stored |-> o.stored]
    /\ UNCHANGED << core, lcd_mode, decode, argp, header, loader >>

SpecPalette == InitPalette /\ [][palette_write]_vars

(***************************************************************************)
(* The opcode fields (CPU/instruction.h): OPCODE_X, _Y, _Z, _P and _Q, as  *)
(* each branch of the #if on __BYTE_ORDER defines them.                    *)
(***************************************************************************)
ByteOrders == {"big", "little"}

Opcodes == 0..255

OPCODE_X(order, opcode) ==
    IF order = "big" THEN opcode \div 64 ELSE opcode % 4

OPCODE_Y(order, opcode) ==
    IF order = "big" THEN (opcode \div 8) % 8 ELSE (opcode \div 4) % 8

OPCODE_Z(order, opcode) ==
    IF order = "big" THEN opcode % 8 ELSE opcode \div 32

OPCODE_Q(order, opcode) ==
    IF order = "big" THEN (opcode \div 8) % 2 ELSE (opcode \div 16) % 2

OPCODE_P(order, opcode) ==
    IF order = "big" THEN (opcode \div 16) % 4 ELSE (opcode \div 4) % 4

InitDecode ==
    /\ main_pc = "decode"
    /\ CoreParked
    /\ g_lcd = ZeroLcd
    /\ g_palettes = ZeroPalettes
    /\ lcd_op = NoLcdOp
    /\ lcd_mode = NoMode
    /\ decode \in { [NoDecode EXCEPT !.byte_order = o, !.opcode = b] :
                      o \in ByteOrders, b \in Opcodes }
    /\ argp = NoArgp
    /\ header = NoHeader
    /\ loader = NoLoader

\* The five macros applied to the opcode byte.
opcode_fields ==
    /\ main_pc = "decode"
    /\ ~decode.done
    /\ decode' = [decode EXCEPT
                    !.done = TRUE,
                    !.x = OPCODE_X(decode.byte_order, decode.opcode),
                    !.y = OPCODE_Y(decode.byte_order, decode.opcode),
                    !.z = OPCODE_Z(decode.byte_order, decode.opcode),
                    !.p = OPCODE_P(decode.byte_order, decode.opcode),
                    !.q = OPCODE_Q(decode.byte_order, decode.opcode)]
    /\ UNCHANGED << core, g_lcd, g_palettes, lcd_op, lcd_mode, argp, header,
                    loader >>

NextDecode == opcode_fields

SpecDecode == InitDecode /\ [][NextDecode]_vars

(***************************************************************************)
(* The command line (options.c): argp_parse calls parse_opt once for each  *)
(* option and each positional argument, in order, and once with            *)
(* ARGP_KEY_END; argp_usage prints the usage and exits.                    *)
(***************************************************************************)
\* Longest command line tried.
MaxArgv == 4

\* Number of positional arguments the program takes, and of slots in
\* options.args.
GBEMU_NB_ARGS == 1

ArgvKeys == {"ARGP_KEY_ARG", "t", "b"}

RECURSIVE ArgvsOfLength(_)
ArgvsOfLength(n) ==
    IF n = 0 THEN { << >> }
    ELSE { Append(a, k) : a \in ArgvsOfLength(n - 1), k \in ArgvKeys }

Argvs == UNION { ArgvsOfLength(n) : n \in 0..MaxArgv }

Positionals(argv) ==
    Cardinality({ i \in 1..Len(argv) : argv[i] = "ARGP_KEY_ARG" })

\* parse_opt(key, value, state) on a = [at, given, argv, arg_num, args,
\* flags]; args is the set of slots of options.args written so far.
parse_opt(a, key) ==
    CASE key \in {"t", "b"} ->
            [a EXCEPT !.flags = @ \cup {key}]
      [] key = "ARGP_KEY_ARG" ->
            IF a.arg_num > GBEMU_NB_ARGS
            THEN [a EXCEPT !.at = "usage"]
            ELSE [a EXCEPT !.args = @ \cup {a.arg_num}]
      [] key = "ARGP_KEY_END" ->
            IF a.arg_num < GBEMU_NB_ARGS
            THEN [a EXCEPT !.at = "usage"]
            ELSE [a EXCEPT !.at = "parsed"]
      [] OTHER -> a

StartArgp(argv) ==
    [at |-> "parsing", given |-> argv, argv |-> argv, arg_num |-> 0,
     args |-> {}, flags |-> {}]

InitArgp ==
    /\ main_pc = "argp"
    /\ CoreParked
    /\ g_lcd = ZeroLcd
    /\ g_palettes = ZeroPalettes
    /\ lcd_op = NoLcdOp
    /\ lcd_mode = NoMode
    /\ decode = NoDecode
    /\ argp \in { StartArgp(argv) : argv \in Argvs }
    /\ header = NoHeader
    /\ loader = NoLoader

\* argp_parse hands the next element of the command line to parse_opt and
\* counts a positional argument the parser accepted.
argp_element ==
    /\ main_pc = "argp"
    /\ argp.at = "parsing"
    /\ argp.argv # << >>
    /\ \E r \in {parse_opt(argp, Head(argp.argv))} :
         argp' = [r EXCEPT
                    !.argv = Tail(@),
                    !.arg_num = IF Head(argp.argv) = "ARGP_KEY_ARG"
                                   /\ r.at = "parsing"
                                THEN @ + 1 ELSE @]
    /\ UNCHANGED << core, g_lcd, g_palettes, lcd_op, lcd_mode, decode, header,
                    loader >>

\* argp_parse calls parse_opt with ARGP_KEY_END once the line is used up.
argp_end ==
    /\ main_pc = "argp"
    /\ argp.at = "parsing"
    /\ argp.argv = << >>
    /\ argp' = parse_opt(argp, "ARGP_KEY_END")
    /\ UNCHANGED << core, g_lcd, g_palettes, lcd_op, lcd_mode, decode, header,
                    loader >>

NextArgp ==
    \/ argp_element
    \/ argp_end

SpecArgp == InitArgp /\ [][NextArgp]_vars

(***************************************************************************)
(* load_cartridge's RAM sizing and check_multicart (cartridge.c).  The     *)
(* header of a ROM file is kept as the fields these read: the RAM-size     *)
(* code, the ROM-size code, and the BANK2 values under which               *)
(* read_cartridge finds the logo at 0x0104.                                *)
(***************************************************************************)
RamSizeCodes == 0..6

RomSizeCodes == {7, 8}

Bank2Values == 0..3

Headers ==
    [ram_size : RamSizeCodes, rom_size : RomSizeCodes,
     logos : SUBSET Bank2Values]

\* 2 << n.
TwoShifted(n) == 2 * (2 ^ n)

\* The switch on ram_size_code.
ram_size_of(code) ==
    CASE code = 2 -> TwoShifted(13)
      [] code = 3 -> TwoShifted(15)
      [] code = 4 -> TwoShifted(17)
      [] code = 5 -> TwoShifted(16)
      [] OTHER -> 0

\* The loop of check_multicart over the BANK2 values: one game fewer for
\* each value under which a byte of the logo differs.
RECURSIVE logo_loop(_, _, _)
logo_loop(h, ram_bank, nb_games) ==
    IF ram_bank > 3 THEN nb_games
    ELSE logo_loop(h, ram_bank + 1,
                   IF ram_bank \in h.logos THEN nb_games ELSE nb_games - 1)

\* check_multicart: [multicart, nb_games]; the int nb_games is converted to
\* the bool cartridge.multicart.
check_multicart(h) ==
    IF h.rom_size < 8
    THEN [multicart |-> FALSE, nb_games |-> 4]
    ELSE [multicart |-> logo_loop(h, 0, 4) # 0,
          nb_games |-> logo_loop(h, 0, 4)]

InitLoader ==
    /\ main_pc = "loader"
    /\ CoreParked
    /\ g_lcd = ZeroLcd
    /\ g_palettes = ZeroPalettes
    /\ lcd_op = NoLcdOp
    /\ lcd_mode = NoMode
    /\ decode = NoDecode
    /\ argp = NoArgp
    /\ header \in Headers
    /\ loader = NoLoader

\* load_cartridge up to the malloc of cartridge.ram.  header->ram_size and
\* header->rom_version are read from cartridge.rom before fread has filled
\* it: the bytes read are whatever malloc returned, the file's or not.
loader_size ==
    /\ main_pc = "loader"
    /\ loader.at = "idle"
    /\ \E code \in RamSizeCodes, mbc2 \in BOOLEAN :
         loader' = [loader EXCEPT
                      !.at = "sized",
                      !.ram_size_code = code,
                      !.ram_size = IF mbc2 THEN 512 ELSE ram_size_of(code)]
    /\ UNCHANGED << core, g_lcd, g_palettes, lcd_op, lcd_mode, decode, argp,
                    header >>

\* check_multicart, called once the ROM is in memory.
loader_check ==
    /\ main_pc = "loader"
    /\ loader.at = "sized"
    /\ loader' = [loader EXCEPT
                    !.at = "checked",
                    !.multicart = check_multicart(header).multicart,
                    !.nb_games = check_multicart(header).nb_games]
    /\ UNCHANGED << core, g_lcd, g_palettes, lcd_op, lcd_mode, decode, argp,
                    header >>

NextLoader ==
    \/ loader_size
    \/ loader_check

SpecLoader == InitLoader /\ [][NextLoader]_vars

(***************************************************************************)
(* Properties of main and its loop.                                        *)
(***************************************************************************)
\* The unit of work an iteration owes: a timer tick if the CPU was halted as
\* the iteration began, an instruction otherwise.
UnitOwed == IF at_head.halt THEN << "tick" >> ELSE << "exec" >>

\* C1: every iteration of the main loop does exactly one unit of work - an
\* instruction when cpu.halt is clear, a timer tick when it is set, never
\* both, never neither - and then calls handle_interrupts exactly once; an
\* interrupt is serviced only by that call, after the unit of work.
C1_OneUnitThenOneCheck ==
    /\ main_pc = "work" => units = << >> /\ irq_calls = 0 /\ serviced = << >>
    /\ main_pc = "irq" => units = UnitOwed /\ irq_calls = 0 /\ serviced = << >>
    /\ main_pc = "end" => units = UnitOwed /\ irq_calls = 1
    /\ main_pc = "head" =>
         \/ units = << >> /\ irq_calls = 0 /\ serviced = << >>
         \/ units = UnitOwed /\ irq_calls = 1
    /\ serviced # << >> => main_pc \in {"end", "head"}

\* An iteration that executed an instruction and whose interrupt check then
\* dispatched an interrupt.
C1_Witness ==
    /\ main_pc = "end"
    /\ units = << "exec" >>
    /\ irq_calls = 1
    /\ serviced # << >>

C2_State ==
    /\ main_pc = "done" => ~cpu.is_running
    /\ main_pc = "work" => cpu.is_running

C2_Step ==
    /\ main_pc' = "done" /\ main_pc # "done" =>
         main_pc = "head" /\ ~cpu.is_running
    /\ main_pc = "head" /\ ~cpu.is_running => main_pc' = "done"
    /\ main_pc = "head" /\ cpu.is_running => main_pc' = "work"
    /\ ~cpu.is_running /\ main_pc \in {"head", "irq", "end", "done"} =>
         n_instr' = n_instr /\ n_halt' = n_halt /\ ~cpu'.is_running

\* C2: the main loop is left only at its head test and only when
\* cpu.is_running is false there; once the flag is cleared no instruction is
\* executed and no timer tick is done any more, and the next head test ends
\* the loop.
C2_StopsOnlyAtHead == [](C2_State) /\ [][C2_Step]_vars

\* The loop was left after an error-sentinel instruction that followed other
\* instructions.
C2_Witness == main_pc = "done" /\ n_instr > 1

\* C3: when load_cartridge reports failure, main reaches neither reset_cpu
\* nor the main loop.
C3_CoreNeedsCartridge == load_ret = "false" => main_pc \in {"info", "crashed"}

\* C4: load_cartridge returns false exactly when the file cannot be opened
\* or the checksum of header bytes 0x0134..0x014C is invalid.
C4_LoadRejectsInvalid ==
    load_ret # "none" =>
        (load_ret = "false" <=>
            (~file.exists \/ ~verify_header_checksum(file.rom)))

(***************************************************************************)
(* Properties of the interrupt controller, the CPU and the timer as the    *)
(* main loop drives them.                                                  *)
(***************************************************************************)
Sources == 0..(NbInterrupts - 1)

\* Source n is both pending and enabled in interrupt registers i.
IsPendingEnabled(i, n) == BitAt(i.iflag, n) = 1 /\ BitAt(i.ie, n) = 1

\* The executed instruction is a store to the given address.
IsStoreTo(in, address) ==
    in.instruction = "IN_LD" /\ in.store /\ in.address = address

C5_Step ==
    main_pc = "irq" /\ cpu.ime /\ (\E k \in Sources : IsPendingEnabled(irq, k))
    =>
    \E n \in Sources :
        /\ IsPendingEnabled(irq, n)
        /\ \A m \in 0..(n - 1) : ~IsPendingEnabled(irq, m)
        /\ serviced' = << n >>
        /\ irq'.iflag = irq.iflag - 2 ^ n
        /\ irq'.ie = irq.ie
        /\ ~cpu'.ime
        /\ cpu'.pc = VectorBase + 8 * n
        /\ cpu'.sp = (cpu.sp - 2) % 65536
        /\ mem'[cpu'.sp] = cpu.pc % 256
        /\ mem'[(cpu'.sp + 1) % 65536] = cpu.pc \div 256

\* C5: at an interrupt check with IME set and sources both pending and
\* enabled, only the lowest-numbered of them is serviced: its pending bit
\* alone is cleared, IME is cleared, PC is pushed and set to its vector; no
\* iteration dispatches more than one interrupt.
C5_LowestFirstOneAtATime == [](Len(serviced) <= 1) /\ [][C5_Step]_vars

\* VBlank and Timer were both pending and enabled with IME set: VBlank was
\* serviced and Timer is still pending.
C5_Witness ==
    /\ main_pc = "end"
    /\ at_head.pending = 5
    /\ serviced = << 0 >>
    /\ irq.iflag = 4
    /\ irq.ie = 5
    /\ ~cpu.ime

C6_Step ==
    \A n \in Sources :
        BitAt(irq.iflag, n) = 1 /\ BitAt(irq'.iflag, n) = 0
        =>
        \/ main_pc = "irq" /\ serviced' = << n >>
        \/ main_pc = "work" /\ IsStoreTo(last_in', IF_ADDRESS)

\* C6: a pending bit, once set, is cleared only by the dispatch of that
\* interrupt or by an instruction that writes the interrupt-flag register,
\* whatever IME and the enable mask are.
C6_RequestNeverLost == [][C6_Step]_vars

\* VBlank and Timer are pending and enabled with IME clear, and both are
\* still pending after an iteration that executed a NOP.
C6_Witness ==
    /\ main_pc = "end"
    /\ at_head.pending = 5
    /\ ~at_head.ime
    /\ last_in.instruction = "IN_NOP"
    /\ irq.iflag = 5
    /\ serviced = << >>

C8_State ==
    main_pc \in {"irq", "end"} /\ at_head.halt
    => units = << "tick" >> /\ last_in = NoInstruction

C8_Step ==
    /\ main_pc = "work" /\ cpu.halt
         => /\ n_instr' = n_instr
            /\ n_halt' = n_halt + 1
            /\ timer'.div = (timer.div + 1) % 65536
            /\ cpu' = cpu
    /\ main_pc = "work" /\ ~cpu.halt => units' = << "exec" >>
    /\ main_pc = "irq"
         => cpu'.halt = (cpu.halt /\ ~(\E n \in Sources : IsPendingEnabled(irq, n)))

\* C8: while cpu.halt is set an iteration executes no instruction and ticks
\* the timer once; the interrupt check clears halt exactly when some
\* interrupt is both pending and enabled, whatever IME is, so that the next
\* iteration executes an instruction; otherwise the CPU stays halted.
C8_HaltWake == [](C8_State) /\ [][C8_Step]_vars

\* The CPU was halted for several ticks and was woken with IME clear: no
\* interrupt was dispatched.
C8_Witness ==
    /\ main_pc = "end"
    /\ at_head.halt
    /\ ~cpu.halt
    /\ ~cpu.ime
    /\ serviced = << >>
    /\ n_halt > 1

C9_State ==
    main_pc = "irq" /\ IsStoreTo(last_in, TIMER_DIV) => timer.div = 0

C9_Step ==
    /\ main_pc = "work" /\ cpu.halt /\ BitAt(timer.tac, 2) = 1
       /\ timer.tima = 255 /\ ~timer.overflow
       /\ (timer.div + 1) % TimerDivisor(timer.tac) = 0
         => timer'.tima = 0 /\ timer'.overflow
    /\ main_pc = "work" /\ cpu.halt /\ timer.overflow
         => /\ timer'.tima = timer.tma
            /\ BitAt(irq'.iflag, IV_TIMA) = 1
            /\ ~timer'.overflow

\* C9: with the counter enabled, a TIMA increment past 0xFF wraps it to 0
\* and the following tick reloads it from TMA and sets the timer bit of the
\* interrupt-flag register; a store of any value to the divider register
\* leaves the divider at 0.
C9_TimerOverflow == [](C9_State) /\ [][C9_Step]_vars

\* A halted tick completed the reload: TIMA is TMA (5) and the timer
\* interrupt is pending.
C9_Witness ==
    /\ main_pc = "irq"
    /\ units = << "tick" >>
    /\ timer.tma = 5
    /\ timer.tima = 5
    /\ timer.tac = 5
    /\ timer.div % 16 = 1
    /\ BitAt(irq.iflag, IV_TIMA) = 1

(***************************************************************************)
(* Properties of the I/O block.                                            *)
(***************************************************************************)
\* The owner the I/O block documents for an address.
OwnerOf(address) ==
    IF TIMER_DIV <= address /\ address <= TIMER_TAC THEN "timer"
    ELSE IF address = IF_ADDRESS THEN "interrupt"
    ELSE "none"

C10_State == io.op # "none" => io.owner = OwnerOf(io.address)

C10_Step ==
    /\ io'.op = "read" => timer' = timer /\ irq' = irq
    /\ io'.op = "write" /\ OwnerOf(io'.address) = "timer" => irq' = irq
    /\ io'.op = "write" /\ OwnerOf(io'.address) = "interrupt" => timer' = timer
    /\ io'.op = "write" /\ OwnerOf(io'.address) = "none"
         => timer' = timer /\ irq' = irq

\* C10: read_io and write_io forward an address to one owner, the same for a
\* read and a write: TIMER_DIV..TIMER_TAC to the timer, IF_ADDRESS to the
\* interrupt registers, any other address to no owner; an access changes no
\* state but its owner's.
C10_IoRouting == [](C10_State) /\ [][C10_Step]_vars

\* A read of the interrupt-flag register that returned what a write of the
\* same address had stored.
C10_Witness ==
    /\ io.op = "read"
    /\ io.address = IF_ADDRESS
    /\ io.owner = "interrupt"
    /\ io.value = 5

\* An access to an address that is neither a timer register nor IF.
C11_State ==
    io.op = "read" /\ OwnerOf(io.address) = "none" => io.value = 255

C11_Step ==
    io'.op # "none" /\ OwnerOf(io'.address) = "none"
        => timer' = timer /\ irq' = irq /\ cpu'.is_running = cpu.is_running

\* C11: an unmapped I/O access is benign: read_io of an address that is
\* neither a timer register nor the interrupt-flag register returns 0xFF,
\* write_io to such an address does nothing, and neither changes the timer,
\* the interrupt registers or cpu.is_running.
C11_UnmappedBenign == [](C11_State) /\ [][C11_Step]_vars

(***************************************************************************)
(* Properties of the LCD registers.                                        *)
(***************************************************************************)
\* The addresses the claim has write_lcd skip: LY, and every address outside
\* 0xFF40..0xFF4B and 0xFF68..0xFF6B.
SkippedAddress(a) ==
    \/ a = LY_ADDRESS
    \/ ~(BETWEEN(a, LCD_BASE, LCD_LAST_WRITE) \/ BETWEEN(a, CGB_FIRST, CGB_LAST))

C12_State ==
    lcd_op.op = "write" /\ SkippedAddress(lcd_op.address)
        => lcd_op.stored = "none"

C12_Step ==
    lcd_op'.op = "write" /\ SkippedAddress(lcd_op'.address)
        => g_lcd' = g_lcd /\ g_palettes' = g_palettes

\* C12: write_lcd to LY (0xFF44), or to an address outside 0xFF40..0xFF4B
\* and 0xFF68..0xFF6B (below 0xFF40 included), is skipped: it stores nothing
\* and changes no LCD register and no palette.
C12_SkippedWrites == [](C12_State) /\ [][C12_Step]_vars

\* The plain read/write registers of the two documented ranges.
PlainRegisters ==
    ((LCD_BASE..LCD_LAST_READ) \cup (CGB_FIRST..(CGB_LAST - 1)))
        \ {STAT_ADDRESS, LY_ADDRESS, DMA_ADDRESS}

C13_Step ==
    lcd_op.op = "write" /\ lcd_op'.op = "read"
    /\ lcd_op'.address = lcd_op.address
        => /\ lcd_op.address \in PlainRegisters
                => lcd_op'.result = "ok" /\ lcd_op'.value = lcd_op.value
           /\ lcd_op.stored \in {"lcd", "cgb", "stat"}
                => lcd_op'.result = "ok"

\* C13: for every plain read/write register of 0xFF40..0xFF4A and
\* 0xFF68..0xFF6A, read_lcd right after write_lcd of the same address
\* succeeds and returns the value written; and every address write_lcd
\* stores to can be read through read_lcd.
C13_RoundTrip == [][C13_Step]_vars

C18_State ==
    /\ lcd_mode # NoMode => lcd_get_mode(g_lcd) = lcd_mode[1]
    /\ lcd_mode # NoMode /\ lcd_op.op = "get_mode"
         => lcd_op.value = lcd_mode[1]

C18_Step ==
    /\ lcd_op'.op = "write" /\ lcd_op'.address = STAT_ADDRESS
         => /\ \A n \in 3..6 :
                 BitAt(g_lcd'[StatAt], n) = BitAt(lcd_op'.value, n)
            /\ \A n \in 0..2 :
                 BitAt(g_lcd'[StatAt], n) = BitAt(g_lcd[StatAt], n)
    /\ lcd_op'.op = "set_mode"
         => \A n \in 2..7 : BitAt(g_lcd'[StatAt], n) = BitAt(g_lcd[StatAt], n)

\* C18: the mode bits of STAT belong to lcd_set_mode: lcd_get_mode returns
\* the mode last given to lcd_set_mode whatever write_lcd calls came since;
\* a write_lcd to STAT stores bits 3-6 of the value and keeps bits 0-2; and
\* lcd_set_mode changes no bit of STAT but bits 0-1.
C18_ModeOwnedBySetMode == [](C18_State) /\ [][C18_Step]_vars

\* lcd_get_mode returning the mode set before a write of 0xAD to STAT, whose
\* bits 3 and 5 are stored and whose low bits are not.
C18_Witness ==
    /\ lcd_mode = << 2 >>
    /\ lcd_op.op = "get_mode"
    /\ lcd_op.value = 2
    /\ BitAnd(g_lcd[StatAt], 120) = 40

\* C19: bit 7 of STAT is set in every state from init_lcd on, the state
\* right after init_lcd included.
C19_StatBit7 == BitAt(g_lcd[StatAt], 7) = 1

\* C20: bit 2 of STAT is set exactly when LY equals LYC, in every state from
\* init_lcd on: a write to LYC recomputes it and a write to STAT leaves it.
C20_LycFlag == (BitAt(g_lcd[StatAt], 2) = 1) <=> (g_lcd[LyAt] = g_lcd[LycAt])

\* LYC was written 0xAD, which cleared the flag, and a later write of 0xAD to
\* STAT, bit 2 set in it, left the flag clear.
C20_Witness ==
    /\ lcd_op.op = "write"
    /\ lcd_op.address = STAT_ADDRESS
    /\ BitAt(lcd_op.value, 2) = 1
    /\ g_lcd[LycAt] = 173
    /\ BitAt(g_lcd[StatAt], 2) = 0

(***************************************************************************)
(* Properties of the opcode fields.                                        *)
(***************************************************************************)
\* C14: for every opcode byte, in whichever branch of the byte-order
\* conditional the build selects, OPCODE_X is bits 7-6, OPCODE_Y bits 5-3,
\* OPCODE_Z bits 2-0, OPCODE_P is Y shifted right by one, OPCODE_Q is Y
\* modulo 2, and the opcode is 64*X + 8*Y + Z.
C14_OpcodeFields ==
    decode.done
        => /\ decode.x = decode.opcode \div 64
           /\ decode.y = (decode.opcode \div 8) % 8
           /\ decode.z = decode.opcode % 8
           /\ decode.p = decode.y \div 2
           /\ decode.q = decode.y % 2
           /\ decode.opcode = 64 * decode.x + 8 * decode.y + decode.z

(***************************************************************************)
(* Properties of the command line.                                         *)
(***************************************************************************)
\* C15: the command line takes exactly one positional argument: with none,
\* or with two or more, parsing ends in argp_usage; and no positional
\* argument is stored at an index of options.args at or beyond
\* GBEMU_NB_ARGS.
C15_OnePositional ==
    /\ argp.at = "parsed" => Positionals(argp.given) = 1
    /\ \A i \in argp.args : i < GBEMU_NB_ARGS

(***************************************************************************)
(* Properties of load_cartridge and check_multicart.                       *)
(***************************************************************************)
\* The table in load_cartridge's comment: bytes of RAM for a RAM-size code.
DocumentedRamSize(code) ==
    CASE code = 2 -> 8 * 1024
      [] code = 3 -> 32 * 1024
      [] code = 4 -> 128 * 1024
      [] code = 5 -> 64 * 1024
      [] OTHER -> 0

\* C16: load_cartridge sizes the external RAM from the RAM-size code of the
\* header as its table documents: 8 KiB for code 2, 32 KiB for 3, 128 KiB
\* for 4, 64 KiB for 5 and 0 bytes for every other code.
C16_RamSize ==
    loader.at # "idle" => loader.ram_size = DocumentedRamSize(header.ram_size)

\* C17: check_multicart sets cartridge.multicart exactly when the logo is
\* found under more than one of the four BANK2 values; a cartridge with the
\* logo under one value only, or with a ROM-size code below 8, is not a
\* multicart.
C17_Multicart ==
    loader.at = "checked"
        => (loader.multicart
              <=> (header.rom_size >= 8 /\ Cardinality(header.logos) > 1))

(***************************************************************************)
(* Properties of the palettes.                                             *)
(***************************************************************************)
\* The four shades a palette register value selects.
ShadesOf(v) == << SHADE(v, 0), SHADE(v, 1), SHADE(v, 2), SHADE(v, 3) >>

C21_State ==
    \A a, b \in 0..2 : a # b => lcd_get_palette(a) # lcd_get_palette(b)

C21_Step ==
    /\ lcd_op'.op = "write" /\ lcd_op'.address = BGP_ADDRESS
         => /\ g_palettes'.bg = ShadesOf(lcd_op'.value)
            /\ g_palettes'.obj0 = g_palettes.obj0
            /\ g_palettes'.obj1 = g_palettes.obj1
    /\ lcd_op'.op = "write" /\ lcd_op'.address = BGP_ADDRESS + 1
         => /\ g_palettes'.bg = g_palettes.bg
            /\ g_palettes'.obj1 = g_palettes.obj1
    /\ lcd_op'.op = "write" /\ lcd_op'.address = OBP1_ADDRESS
         => /\ g_palettes'.bg = g_palettes.bg
            /\ g_palettes'.obj0 = g_palettes.obj0

\* C21: a write to a palette register updates the palette of that register
\* only: 0xFF47 sets entry i of the background palette to
\* default_palette[(v >> 2i) & 3] for i = 0..3 and leaves both object
\* palettes alone, 0xFF48 and 0xFF49 update object palette 0 and object
\* palette 1; and lcd_get_palette returns a different palette for each of
\* the three palette names.
C21_OwnPaletteOnly == [](C21_State) /\ [][C21_Step]_vars

C22_Step ==
    /\ lcd_op.op = "write" /\ lcd_op'.op = "write"
    /\ lcd_op'.address = lcd_op.address
    /\ lcd_op.address \in {BGP_ADDRESS + 1, OBP1_ADDRESS}
    /\ lcd_op'.value \div 4 = lcd_op.value \div 4
        => g_palettes' = g_palettes

\* C22: the lower two bits of a value written to an OBJ palette register are
\* ignored: a write to 0xFF48 (or 0xFF49) that follows a write to the same
\* register of a value differing in bits 0-1 only leaves the palettes as
\* the first write left them.
C22_ObjLowBitsIgnored == [][C22_Step]_vars

(***************************************************************************)
(* Properties of a fatal decode error.                                     *)
(***************************************************************************)
\* main is in its loop with the running flag cleared.
Stopping == main_pc \in {"irq", "end", "head"} /\ ~cpu.is_running

C23_Step ==
    Stopping
        => /\ cpu'.pc = cpu.pc
           /\ cpu'.sp = cpu.sp
           /\ cpu'.ime = cpu.ime
           /\ irq'.iflag = irq.iflag
           /\ mem' = mem
           /\ main_pc = "irq" => serviced' = << >>

\* C23: a fatal decode error freezes the machine: once cpu.is_running has
\* been cleared during an iteration, PC, SP, IME, the pending interrupt
\* flags and memory stay as they are until the loop exits, and no interrupt
\* is dispatched in the rest of that iteration.
C23_FatalErrorFreezes == [][C23_Step]_vars

C23_StoppingStep ==
    Stopping
        => /\ main_pc' # "work"
           /\ units' = units \/ units' = << >>
           /\ timer' = timer
           /\ main_pc = "irq" => Len(serviced') <= 1
           /\ main_pc \in {"end", "head"}
                => /\ cpu'.pc = cpu.pc
                   /\ cpu'.sp = cpu.sp
                   /\ cpu'.ime = cpu.ime
                   /\ irq'.iflag = irq.iflag
                   /\ mem' = mem
           /\ main_pc = "head" => main_pc' = "done"

\* C23, as main has it: once cpu.is_running has been cleared, no further
\* instruction executes and the timer does not tick; the handle_interrupts
\* call of that iteration still runs and may dispatch one interrupt; nothing
\* changes after it, and the loop exits at its next test.
C23_StopsAtNextTest == [][C23_StoppingStep]_vars

\* The iteration of a fatal decode error, after its handle_interrupts call
\* dispatched the timer interrupt.
C23_Witness ==
    /\ main_pc = "end"
    /\ ~cpu.is_running
    /\ last_in.instruction = "IN_ERR"
    /\ serviced = << IV_TIMA >>

====
